---- MODULE Spec2Model ----
(***************************************************************************)
(* A model of src/index.js: the GeoJSON service (rule store, rule-driven   *)
(* bulk ingestion, proximity query), its start-up sequence and its basic   *)
(* auth middleware, over a model of the document store it talks to.        *)
(*                                                                         *)
(* Conventions.  A string VALUE the code inspects character by character   *)
(* (a featureclass, a collection name, a credential, an _id) is a sequence *)
(* of one-character strings.  An object KEY (a field of a document, a      *)
(* target field or source property of a mapping) is an atomic string.      *)
(* A JSON/JS value is a record [k, s, o]: its kind, its text (kinds "str", *)
(* "arr", "geo") and its entries (kind "obj").                             *)
(***************************************************************************)
EXTENDS Integers, Sequences, FiniteSets, TLC

VARIABLES
    env,        \* process.env: [login, password], undefined when not set
    boot,       \* position of the start-up promise chain
    pending,    \* geo_* collections whose createIndex of start-up is in flight
    docs,       \* the store: collection name -> (_id -> document)
    indexes,    \* the collections that carry the 2dsphere index on geometry
    last,       \* the last request served and its response
    lastPut,    \* history: rule id -> the arguments of its last accepted putRule
    ingested,   \* history: the collections a bulkWrite has been issued against
    atBoot,     \* history: the store as it was when the process started
    nreq,       \* number of requests served so far
    running     \* the uploads whose bulkWrite the store is executing

vars == <<env, boot, pending, docs, indexes, last, lastPut, ingested, atBoot, nreq,
          running>>

----------------------------------------------------------------------------
(* Bounds of the model                                                     *)

MaxRequests == 2
MaxBatch == 2

----------------------------------------------------------------------------
(* Strings                                                                 *)

S_geo_ == <<"g", "e", "o", "_">>
S_upload_rule == <<"u", "p", "l", "o", "a", "d", "_", "r", "u", "l", "e">>
S_poi == <<"p", "o", "i">>
S_a_b == <<"a", "-", "b">>
S_logs == <<"l", "o", "g", "s">>
S_undefined == <<"u", "n", "d", "e", "f", "i", "n", "e", "d">>
S_null == <<"n", "u", "l", "l">>
S_object == <<"[", "o", "b", "j", "e", "c", "t", " ", "O", "b", "j", "e", "c", "t", "]">>
S_Basic == <<"B", "a", "s", "i", "c", " ">>
S_Bearer == <<"B", "e", "a", "r", "e", "r", " ">>

\* String.prototype.startsWith
StartsWith(s, p) ==
    /\ Len(s) >= Len(p)
    /\ SubSeq(s, 1, Len(p)) = p

\* String.prototype.split(sep) for a one-character separator
RECURSIVE Split(_, _)
Split(s, sep) ==
    IF \A i \in 1..Len(s) : s[i] # sep
    THEN <<s>>
    ELSE LET i == CHOOSE j \in 1..Len(s) :
                      /\ s[j] = sep
                      /\ \A k \in 1..(j - 1) : s[k] # sep
         IN  <<SubSeq(s, 1, i - 1)>> \o Split(SubSeq(s, i + 1, Len(s)), sep)

\* the characters of the class \w
WordChars ==
    { "a", "b", "c", "d", "e", "f", "g", "h", "i", "j", "k", "l", "m",
      "n", "o", "p", "q", "r", "s", "t", "u", "v", "w", "x", "y", "z",
      "A", "B", "C", "D", "E", "F", "G", "H", "I", "J", "K", "L", "M",
      "N", "O", "P", "Q", "R", "S", "T", "U", "V", "W", "X", "Y", "Z",
      "0", "1", "2", "3", "4", "5", "6", "7", "8", "9", "_" }

\* /^[\w]+$/.test(s) on a string s
MatchesWord(s) ==
    /\ Len(s) > 0
    /\ \A i \in 1..Len(s) : s[i] \in WordChars

----------------------------------------------------------------------------
(* JS / JSON values                                                        *)

NoEntries == [f \in {} |-> <<>>]

Undef == [s |-> <<>>, k |-> "undef", o |-> NoEntries]
Null == [s |-> <<>>, k |-> "null", o |-> NoEntries]
Str(s) == [s |-> s, k |-> "str", o |-> NoEntries]
Arr1(s) == [s |-> s, k |-> "arr", o |-> NoEntries]      \* the array [s]
Obj(o) == [s |-> <<>>, k |-> "obj", o |-> o]
Geo(g) == [s |-> g, k |-> "geo", o |-> NoEntries]       \* a GeoJSON geometry
Num(s) == [s |-> s, k |-> "num", o |-> NoEntries]       \* the number written s

\* !!v
Truthy(v) ==
    CASE v.k = "undef" -> FALSE
      [] v.k = "null" -> FALSE
      [] v.k = "str" -> v.s # <<>>
      [] v.k = "num" -> v.s # <<"0">>
      [] OTHER -> TRUE

\* String(v): what RegExp.prototype.test and a template literal make of v
JsString(v) ==
    CASE v.k = "undef" -> S_undefined
      [] v.k = "null" -> S_null
      [] v.k = "str" -> v.s
      [] v.k = "arr" -> v.s
      [] v.k = "num" -> v.s
      [] OTHER -> S_object

\* typeof v === "object" (null excluded by the caller's !v)
TypeofObject(v) == v.k \in {"null", "arr", "obj", "geo"}

\* key in v, for an object or an array (an array has index keys only)
HasKey(v, key) == v.k = "obj" /\ key \in DOMAIN v.o

\* obj[key], undefined when the key is absent
Get(fields, key) == IF key \in DOMAIN fields THEN fields[key] ELSE Undef

\* the BSON serializer writes an undefined field as null
ToBson(v) == IF v.k = "undef" THEN Null ELSE v

----------------------------------------------------------------------------
(* Numbers                                                                 *)
(* A JS number is NaN, an infinity (n is its sign) or the real             *)
(* (n / d) * pi^u in lowest terms.  Products by the constants of the code  *)
(* are exact; the rounding of the doubles is left out, except where it     *)
(* decides a sign (see Normalize).                                         *)

NaN == [k |-> "nan", n |-> 0, d |-> 1, u |-> 0]
Infinite(sign) == [k |-> "inf", n |-> sign, d |-> 1, u |-> 0]

Abs(n) == IF n < 0 THEN -n ELSE n

RECURSIVE GCD(_, _)
GCD(a, b) == IF b = 0 THEN a ELSE GCD(b, a % b)

Fin(n, d, u) ==
    LET g == GCD(Abs(n), d)
    IN  [k |-> "fin", n |-> n \div g, d |-> d \div g, u |-> IF n = 0 THEN 0 ELSE u]

\* x * (a / b) * pi^du, for integers a, b > 0
Times(x, a, b, du) ==
    CASE x.k = "nan" -> NaN
      [] x.k = "inf" -> x
      [] OTHER ->
           LET g1 == GCD(Abs(x.n), b)
               g2 == GCD(a, x.d)
           IN  Fin((x.n \div g1) * (a \div g2), (x.d \div g2) * (b \div g1), x.u + du)

\* isNaN(x), !x, x > 0
IsNaN(x) == x.k = "nan"
Falsy(x) == x.k = "nan" \/ (x.k = "fin" /\ x.n = 0)
Positive(x) == x.k # "nan" /\ x.n > 0

Digits == <<"0", "1", "2", "3", "4", "5", "6", "7", "8", "9">>
IsDigit(c) == \E i \in 1..Len(Digits) : Digits[i] = c
DigitValue(c) == (CHOOSE i \in 1..Len(Digits) : Digits[i] = c) - 1

\* the index after the run of digits of s that starts at index i
RECURSIVE DigitsEnd(_, _)
DigitsEnd(s, i) == IF i <= Len(s) /\ IsDigit(s[i]) THEN DigitsEnd(s, i + 1) ELSE i

\* the digits s[i], .., s[j - 1] appended to the decimal number acc
RECURSIVE Decimal(_, _, _, _)
Decimal(s, i, j, acc) ==
    IF i >= j THEN acc ELSE Decimal(s, i + 1, j, 10 * acc + DigitValue(s[i]))

RECURSIVE Pow10(_)
Pow10(k) == IF k = 0 THEN 1 ELSE 10 * Pow10(k - 1)

S_Infinity == <<"I", "n", "f", "i", "n", "i", "t", "y">>


\* the decimal texts of the doubles 2 * Math.PI, Math.PI, Math.PI / 2,
\* Math.PI / 4 and Math.PI / 8, which parseFloat reads back to them
S_2PI == <<"6", ".", "2", "8", "3", "1", "8", "5", "3", "0", "7", "1", "7", "9", "5", "8", "6">>
S_PI == <<"3", ".", "1", "4", "1", "5", "9", "2", "6", "5", "3", "5", "8", "9", "7", "9", "3">>
S_PI_2 == <<"1", ".", "5", "7", "0", "7", "9", "6", "3", "2", "6", "7", "9", "4", "8", "9", "6", "6">>
S_PI_4 == <<"0", ".", "7", "8", "5", "3", "9", "8", "1", "6", "3", "3", "9", "7", "4", "4", "8", "3">>
S_PI_8 == <<"0", ".", "3", "9", "2", "6", "9", "9", "0", "8", "1", "6", "9", "8", "7", "2", "4", "1", "4">>
PiTexts ==
    { [n |-> 2, d |-> 1, text |-> S_2PI], [n |-> 1, d |-> 1, text |-> S_PI],
      [n |-> 1, d |-> 2, text |-> S_PI_2], [n |-> 1, d |-> 4, text |-> S_PI_4],
      [n |-> 1, d |-> 8, text |-> S_PI_8] }

\* parseFloat(raw) of a query parameter (a string, or undefined when the
\* parameter is absent): an optional sign, then Infinity or decimal digits
\* with an optional fraction; what follows is ignored; NaN when there is no
\* digit.  (Texts with leading blanks or an exponent are not modelled.)
ParseFloat(raw) ==
    IF raw.k # "str" \/ raw.s = <<>>
    THEN NaN
    ELSE LET signed == raw.s[1] \in {"-", "+"}
             sign == IF raw.s[1] = "-" THEN -1 ELSE 1
             body == IF signed THEN Tail(raw.s) ELSE raw.s
             intEnd == DigitsEnd(body, 1)
             dot == intEnd <= Len(body) /\ body[intEnd] = "."
             fracEnd == IF dot THEN DigitsEnd(body, intEnd + 1) ELSE intEnd
             fracLen == IF dot THEN fracEnd - intEnd - 1 ELSE 0
             whole == Decimal(body, 1, intEnd, 0)
         IN  IF StartsWith(body, S_Infinity)
             THEN Infinite(sign)
             ELSE IF \E t \in PiTexts : t.text = body
             THEN LET t == CHOOSE t \in PiTexts : t.text = body
                  IN  Fin(sign * t.n, t.d, 1)
             ELSE IF (intEnd - 1) + fracLen = 0
             THEN NaN
             ELSE Fin(sign * Decimal(body, intEnd + 1, fracEnd, whole),
                      Pow10(fracLen), 0)

----------------------------------------------------------------------------
(* The document store                                                      *)

RuleStore == S_geo_ \o S_upload_rule

NoDocs == [i \in {} |-> NoEntries]

collections == DOMAIN docs

\* db.collection(c), the documents of c (none when c does not exist)
DocsOf(d, c) == IF c \in DOMAIN d THEN d[c] ELSE NoDocs

\* the store with collection c holding the documents coll
WithColl(d, c, coll) ==
    [x \in DOMAIN d \cup {c} |-> IF x = c THEN coll ELSE d[x]]

\* createIndex creates the collection when it does not exist
CreateCollection(d, c) == IF c \in DOMAIN d THEN d ELSE WithColl(d, c, NoDocs)

\* mutant of ApplySet: an object field is merged entry by entry into the
\* object the document holds (as { $set: { "mapping.k": v } } would)
ApplySet_MergesObjects(doc, set) ==
    [f \in DOMAIN doc \cup DOMAIN set |->
        IF f \notin DOMAIN set THEN doc[f]
        ELSE IF f \in DOMAIN doc /\ doc[f].k = "obj" /\ set[f].k = "obj"
        THEN Obj([e \in DOMAIN doc[f].o \cup DOMAIN set[f].o |->
                     IF e \in DOMAIN set[f].o THEN set[f].o[e] ELSE doc[f].o[e]])
        ELSE ToBson(set[f])]

\* { $set: set } on a document
ApplySet(doc, set) ==
    [f \in DOMAIN doc \cup DOMAIN set |->
        IF f \in DOMAIN set THEN ToBson(set[f]) ELSE doc[f]]

\* updateOne({_id: id}, {$set: set}, {upsert: true}) on the documents coll
UpdateOne(coll, id, set) ==
    LET exists == id \in DOMAIN coll
        old == IF exists THEN coll[id] ELSE NoEntries
        new == ApplySet(old, set)
    IN  [coll |-> [i \in DOMAIN coll \cup {id} |-> IF i = id THEN new ELSE coll[i]],
         upserted |-> IF exists THEN 0 ELSE 1,
         modified |-> IF exists /\ new # old THEN 1 ELSE 0]

\* collection.bulkWrite(ops, {ordered: false}): the store applies the
\* operations one by one in an order of its choosing, here order
RECURSIVE ApplyOps(_, _, _, _)
ApplyOps(acc, ops, order, i) ==
    IF i > Len(ops)
    THEN acc
    ELSE LET op == ops[order[i]]
             r == UpdateOne(acc.coll, op.id, op.set)
         IN  ApplyOps([coll |-> r.coll,
                       upserted |-> acc.upserted + r.upserted,
                       modified |-> acc.modified + r.modified],
                      ops, order, i + 1)

BulkWrite(coll, ops, order) ==
    ApplyOps([coll |-> coll, upserted |-> 0, modified |-> 0], ops, order, 1)

\* the orders in which the store may apply n unordered operations
Orders(n) == {p \in [1..n -> 1..n] : \A i, j \in 1..n : p[i] = p[j] => i = j}

----------------------------------------------------------------------------
(* Start-up: connectDB().then(ensureGeospatialIndex).then(listen).catch    *)

\* client.connect() resolves: ctx.db is set
ConnectOk ==
    /\ boot = "connecting"
    /\ boot' = "listing"
    /\ UNCHANGED <<env, pending, docs, indexes, last, lastPut, ingested, atBoot, nreq, running>>

\* client.connect() rejects: the chain ends in .catch
ConnectFail ==
    /\ boot = "connecting"
    /\ boot' = "fatal"
    /\ UNCHANGED <<env, pending, docs, indexes, last, lastPut, ingested, atBoot, nreq, running>>

\* listCollections resolves: one createIndex per geo_* collection is started
ListCollections ==
    /\ boot = "listing"
    /\ boot' = "indexing"
    /\ pending' = {c \in collections : StartsWith(c, S_geo_)}
    /\ UNCHANGED <<env, docs, indexes, last, lastPut, ingested, atBoot, nreq, running>>

\* listCollections rejects
ListCollectionsFail ==
    /\ boot = "listing"
    /\ boot' = "fatal"
    /\ UNCHANGED <<env, pending, docs, indexes, last, lastPut, ingested, atBoot, nreq, running>>

\* one createIndex of the fan-out resolves
EnsureAtBootOk(c) ==
    /\ c \in pending
    /\ pending' = pending \ {c}
    /\ indexes' = indexes \cup {c}
    /\ UNCHANGED <<env, boot, docs, last, lastPut, ingested, atBoot, nreq, running>>

\* mutant of EnsureAtBootFail: the rejection is swallowed in the callback
EnsureAtBootFail_Swallowed(c) ==
    /\ c \in pending
    /\ pending' = pending \ {c}
    /\ UNCHANGED <<env, boot, docs, indexes, last, lastPut, ingested, atBoot, nreq, running>>

\* one createIndex of the fan-out rejects: Promise.all rejects, the chain
\* ends in .catch while the other createIndex calls run on
EnsureAtBootFail(c) ==
    /\ c \in pending
    /\ pending' = pending \ {c}
    /\ boot' = "fatal"
    /\ UNCHANGED <<env, docs, indexes, last, lastPut, ingested, atBoot, nreq, running>>

\* Promise.all resolved: app.listen
Listen ==
    /\ boot = "indexing"
    /\ pending = {}
    /\ boot' = "listening"
    /\ UNCHANGED <<env, pending, docs, indexes, last, lastPut, ingested, atBoot, nreq, running>>

----------------------------------------------------------------------------
(* Basic auth middleware                                                   *)

\* An Authorization header: scheme is its text up to and including the
\* first space, cred the text its base64 token decodes to.
NoHeader == [present |-> FALSE, scheme |-> <<>>, cred |-> <<>>]
Header(scheme, cred) == [present |-> TRUE, scheme |-> scheme, cred |-> cred]

\* mutant of AuthEnabled: one secret is enough (&& for || in the test)
AuthEnabled_EitherSecret == Truthy(env.login) \/ Truthy(env.password)

\* basicAuth is a function (not null): both secrets are set
AuthEnabled == Truthy(env.login) /\ Truthy(env.password)

\* const [user, password] = decodedToken.split(':')
CredUser(cred) == Str(Split(cred, ":")[1])
CredPassword(cred) ==
    LET parts == Split(cred, ":")
    IN  IF Len(parts) >= 2 THEN Str(parts[2]) ELSE Undef

\* the status basicAuth throws with, 0 when it calls next()
BasicAuth(hdr) ==
    IF ~hdr.present \/ ~StartsWith(hdr.scheme, S_Basic)
    THEN 401
    ELSE IF \/ CredUser(hdr.cred) # env.login
            \/ CredPassword(hdr.cred) # env.password
         THEN 403
         ELSE 0

----------------------------------------------------------------------------
(* Responses                                                               *)

\* the error-handling middleware: res.status(err.status || 500)
StatusOf(errStatus) == IF errStatus # 0 THEN errStatus ELSE 500

\* what a request that is no query records of a query
NoQuery ==
    [lng |-> Undef, lat |-> Undef, radiusRaw |-> Undef, queried |-> FALSE,
     point |-> [lng |-> NaN, lat |-> NaN], radius |-> NaN, radiusM |-> NaN,
     zoom |-> NaN, tolerance |-> NaN, found |-> <<>>, features |-> <<>>]

NoRequest ==
    [modified |-> 0, op |-> "none", hdr |-> NoHeader, features |-> <<>>,
     status |-> 0, error |-> "", ruleId |-> <<>>, target |-> <<>>,
     mapping |-> Undef, inserted |-> 0, pos |-> 0, query |-> NoQuery]

\* the record of a request to op that ended with status and error
Response(op, hdr, ruleId, status, error) ==
    [NoRequest EXCEPT !.op = op, !.hdr = hdr, !.ruleId = ruleId,
                      !.status = status, !.error = error]

\* the route is not registered, or basicAuth threw: status and message, and
\* status 0 when the request reaches the handler
Gate(hdr) ==
    IF ~AuthEnabled
    THEN [status |-> 404, error |-> "Cannot POST"]
    ELSE CASE BasicAuth(hdr) = 401 -> [status |-> 401, error |-> "Unauthorized"]
           [] BasicAuth(hdr) = 403 -> [status |-> 403, error |-> "Forbidden"]
           [] OTHER -> [status |-> 0, error |-> ""]

----------------------------------------------------------------------------
(* POST /map/rule/:rule                                                    *)

\* the message of the validation error thrown, "" when the body is accepted
RuleError(featureclass, mapping) ==
    IF ~Truthy(featureclass)
    THEN "featureclass is required"
    ELSE IF ~MatchesWord(JsString(featureclass))
    THEN "featureclass must be alphanumerical"
    ELSE IF ~Truthy(mapping) \/ ~TypeofObject(mapping)
    THEN "mapping must be an object"
    ELSE IF ~HasKey(mapping, "_id")
    THEN "mapping must contain _id"
    ELSE ""

\* the update document { $set: { featureclass, mapping } }
RuleUpdate(featureclass, mapping) ==
    [mapping |-> mapping, featureclass |-> featureclass]

\* the handler behind basicAuth: the response and the store it leaves
PutRuleHandler(d, ruleId, featureclass, mapping) ==
    LET error == RuleError(featureclass, mapping)
        r == UpdateOne(DocsOf(d, RuleStore), Str(ruleId),
                       RuleUpdate(featureclass, mapping))
    IN  IF error # ""
        THEN [docs |-> d, modified |-> 0,
              status |-> StatusOf(0), error |-> error, inserted |-> 0]
        ELSE [docs |-> WithColl(d, RuleStore, r.coll), modified |-> r.modified,
              status |-> 200, error |-> "", inserted |-> r.upserted]

PutRule(hdr, ruleId, featureclass, mapping) ==
    /\ boot = "listening"
    /\ nreq < MaxRequests
    /\ nreq' = nreq + 1
    /\ LET gate == Gate(hdr)
           r == PutRuleHandler(docs, ruleId, featureclass, mapping)
       IN  IF gate.status # 0
           THEN /\ last' = Response("putRule", hdr, ruleId, gate.status, gate.error)
                /\ UNCHANGED <<docs, lastPut>>
           ELSE /\ last' = [Response("putRule", hdr, ruleId, r.status, r.error)
                               EXCEPT !.inserted = r.inserted,
                                      !.modified = r.modified]
                /\ docs' = r.docs
                /\ lastPut' =
                       IF r.status = 200
                       THEN [lastPut EXCEPT ![ruleId] =
                                [set |-> TRUE, mapping |-> mapping,
                                 featureclass |-> featureclass,
                                 replaced |-> (@.replaced \/ r.modified = 1)]]
                       ELSE lastPut
    /\ UNCHANGED <<env, boot, pending, indexes, ingested, atBoot, running>>

----------------------------------------------------------------------------
(* POST /map/upload/:rule                                                  *)

\* ensureGeospatialIndexForCollection: createIndex({geometry: '2dsphere'}),
\* which creates the collection when it does not exist
EnsureGeospatialIndexForCollection(d, idx, c) ==
    [docs |-> CreateCollection(d, c), indexes |-> idx \cup {c}]

\* mutant of MapFeature: a mapped target field named geometry is kept, the
\* geometry of the feature fills the field only when the mapping has none
MapFeature_MappedGeometryWins(mapping, feature) ==
    LET idVal == Get(feature.properties, mapping.o["_id"])
        targets == (DOMAIN mapping.o \ {"_id"}) \cup {"geometry"}
        mappedDoc == [t \in targets |->
                         IF t \in DOMAIN mapping.o
                         THEN Get(feature.properties, mapping.o[t])
                         ELSE feature.geometry]
    IN  IF feature.type # "Feature"
        THEN [set |-> NoEntries, id |-> Undef,
              error |-> "All items must be GeoJSON Features"]
        ELSE IF mapping.k # "obj"
        THEN [set |-> NoEntries, id |-> Undef, error |-> "TypeError"]
        ELSE IF HasKey(mapping, "_id") /\ ~Truthy(idVal)
        THEN [set |-> NoEntries, id |-> Undef,
              error |-> "Feature missing _id value from mapping"]
        ELSE [set |-> mappedDoc,
              id |-> IF HasKey(mapping, "_id") THEN idVal ELSE Null,
              error |-> ""]

\* the callback of features.map on one feature: the error it throws ("" when
\* none) and the updateOne operation it returns
MapFeature(mapping, feature) ==
    LET idVal == Get(feature.properties, mapping.o["_id"])
        targets == (DOMAIN mapping.o \ {"_id"}) \cup {"geometry"}
        mappedDoc == [t \in targets |->
                         IF t = "geometry"
                         THEN feature.geometry
                         ELSE Get(feature.properties, mapping.o[t])]
    IN  IF feature.type # "Feature"
        THEN [set |-> NoEntries, id |-> Undef,
              error |-> "All items must be GeoJSON Features"]
        ELSE IF mapping.k # "obj"
        THEN [set |-> NoEntries, id |-> Undef, error |-> "TypeError"]
        ELSE IF HasKey(mapping, "_id") /\ ~Truthy(idVal)
        THEN [set |-> NoEntries, id |-> Undef,
              error |-> "Feature missing _id value from mapping"]
        ELSE [set |-> mappedDoc,
              id |-> IF HasKey(mapping, "_id") THEN idVal ELSE Null,
              error |-> ""]

\* mutant of BuildOps: a feature whose callback throws is left out of
\* the batch instead of aborting it
BuildOps_SkipsInvalid(mapping, features) ==
    LET mapped == [i \in 1..Len(features) |-> MapFeature(mapping, features[i])]
        valid == SelectSeq(mapped, LAMBDA m : m.error = "")
    IN  [ops |-> [i \in 1..Len(valid) |->
                     [set |-> valid[i].set, id |-> valid[i].id]],
         error |-> "",
         pos |-> 0]

\* features.map(...): the position of the first feature whose callback
\* throws (0 when none does), its error, and the operations built
BuildOps(mapping, features) ==
    LET mapped == [i \in 1..Len(features) |-> MapFeature(mapping, features[i])]
        failing == {i \in 1..Len(features) : mapped[i].error # ""}
        pos == IF failing = {} THEN 0
               ELSE CHOOSE i \in failing : \A j \in failing : i <= j
    IN  [ops |-> [i \in 1..Len(features) |->
                     [set |-> mapped[i].set, id |-> mapped[i].id]],
         error |-> IF pos = 0 THEN "" ELSE mapped[pos].error,
         pos |-> pos]

\* the handler behind basicAuth up to its bulkWrite: the error it throws
\* (status 0 when none), the store it leaves, and the operations it built
UploadValidate(d, idx, ruleId, body) ==
    LET rules == DocsOf(d, RuleStore)
        found == Str(ruleId) \in DOMAIN rules
        rule == IF found THEN rules[Str(ruleId)] ELSE NoEntries
        targetCollection == S_geo_ \o JsString(Get(rule, "featureclass"))
        mapping == Get(rule, "mapping")
        ensured == EnsureGeospatialIndexForCollection(d, idx, targetCollection)
        built == BuildOps(mapping, body.features)
        before == [docs |-> d, indexes |-> idx, ops |-> <<>>, status |-> 0,
                   error |-> "", target |-> <<>>, mapping |-> Undef, pos |-> 0]
        after == [before EXCEPT !.docs = ensured.docs, !.indexes = ensured.indexes,
                                !.target = targetCollection, !.mapping = mapping]
    IN  IF body.type # "FeatureCollection" \/ ~body.isArray
        THEN [before EXCEPT !.status = StatusOf(0),
                            !.error = "Body must be a valid GeoJSON FeatureCollection"]
        ELSE IF ~found
        THEN [before EXCEPT !.status = StatusOf(404),
                            !.error = "Upload rule not found"]
        ELSE IF built.pos # 0
        THEN [after EXCEPT !.status = StatusOf(0), !.error = built.error,
                           !.pos = built.pos]
        ELSE IF Len(built.ops) = 0
        THEN [after EXCEPT !.status = StatusOf(0),
                           !.error = "No valid features to insert"]
        ELSE [after EXCEPT !.ops = built.ops]

Upload(hdr, ruleId, body) ==
    /\ boot = "listening"
    /\ nreq < MaxRequests
    /\ nreq' = nreq + 1
    /\ LET gate == Gate(hdr)
           v == UploadValidate(docs, indexes, ruleId, body)
           sent == [Response("upload", hdr, ruleId, v.status, v.error)
                       EXCEPT !.features = body.features, !.target = v.target,
                              !.mapping = v.mapping, !.pos = v.pos]
       IN  IF gate.status # 0
           THEN /\ last' = Response("upload", hdr, ruleId, gate.status, gate.error)
                /\ UNCHANGED <<docs, indexes, ingested>>
           ELSE IF v.status # 0
           THEN /\ last' = sent
                /\ docs' = v.docs
                /\ indexes' = v.indexes
                /\ UNCHANGED ingested
           ELSE \* const result = await collection.bulkWrite(ops, {ordered: false})
                \E order \in Orders(Len(v.ops)) :
                  LET result == BulkWrite(DocsOf(v.docs, v.target), v.ops, order)
                  IN  /\ last' = [sent EXCEPT !.status = 200,
                                              !.inserted = result.upserted,
                                              !.modified = result.modified]
                      /\ docs' = WithColl(v.docs, v.target, result.coll)
                      /\ indexes' = v.indexes
                      /\ ingested' = ingested \cup {v.target}
    /\ UNCHANGED <<env, boot, pending, lastPut, atBoot, running>>

----------------------------------------------------------------------------
(* POST /map/upload/:rule, step by step: the handler is suspended at       *)
(* await collection.bulkWrite while the store executes the operations, and *)
(* the handler of another request runs in between.                         *)

\* the uploads the service has in flight at a time
Slots == {1, 2}

Idle ==
    [modified |-> 0, ops |-> <<>>, hdr |-> NoHeader, features |-> <<>>,
     ruleId |-> <<>>, target |-> <<>>, mapping |-> Undef, inserted |-> 0,
     state |-> "idle", todo |-> {}]

\* the handler up to the call of bulkWrite; a request that is rejected is
\* answered at once
UploadStart(k, hdr, ruleId, body) ==
    /\ boot = "listening"
    /\ nreq < MaxRequests
    /\ running[k].state = "idle"
    /\ nreq' = nreq + 1
    /\ LET gate == Gate(hdr)
           v == UploadValidate(docs, indexes, ruleId, body)
       IN  IF gate.status # 0
           THEN /\ last' = Response("upload", hdr, ruleId, gate.status, gate.error)
                /\ UNCHANGED <<docs, indexes, ingested, running>>
           ELSE IF v.status # 0
           THEN /\ last' = [Response("upload", hdr, ruleId, v.status, v.error)
                               EXCEPT !.features = body.features, !.target = v.target,
                                      !.mapping = v.mapping, !.pos = v.pos]
                /\ docs' = v.docs
                /\ indexes' = v.indexes
                /\ UNCHANGED <<ingested, running>>
           ELSE /\ running' = [running EXCEPT ![k] =
                                  [Idle EXCEPT !.state = "writing", !.hdr = hdr,
                                               !.ruleId = ruleId,
                                               !.features = body.features,
                                               !.target = v.target,
                                               !.mapping = v.mapping,
                                               !.ops = v.ops,
                                               !.todo = 1..Len(v.ops)]]
                /\ docs' = v.docs
                /\ indexes' = v.indexes
                /\ ingested' = ingested \cup {v.target}
                /\ UNCHANGED last
    /\ UNCHANGED <<env, boot, pending, lastPut, atBoot>>

\* the store applies one operation of the batch: one atomic updateOne
UploadWrite(k, i) ==
    /\ running[k].state = "writing"
    /\ i \in running[k].todo
    /\ LET u == running[k]
           r == UpdateOne(DocsOf(docs, u.target), u.ops[i].id, u.ops[i].set)
       IN  /\ docs' = WithColl(docs, u.target, r.coll)
           /\ running' = [running EXCEPT ![k].todo = @ \ {i},
                                         ![k].inserted = @ + r.upserted,
                                         ![k].modified = @ + r.modified]
    /\ UNCHANGED <<env, boot, pending, indexes, last, lastPut, ingested, atBoot, nreq>>

\* bulkWrite resolves and the handler answers
UploadFinish(k) ==
    /\ running[k].state = "writing"
    /\ running[k].todo = {}
    /\ LET u == running[k]
       IN  last' = [Response("upload", u.hdr, u.ruleId, 200, "")
                       EXCEPT !.features = u.features, !.target = u.target,
                              !.mapping = u.mapping, !.inserted = u.inserted,
                              !.modified = u.modified]
    /\ running' = [running EXCEPT ![k].state = "done"]
    /\ UNCHANGED <<env, boot, pending, docs, indexes, lastPut, ingested, atBoot, nreq>>

----------------------------------------------------------------------------
(* GET /map/features/:featureclass                                         *)

\* the sign of Math.cos((Math.PI / 180) * lat0) for lat0 = n / d degrees. The
\* double is never zero: at an odd multiple of 90 degrees its sign is the
\* one the rounding of the argument leaves (90: +, 270: -, 450: +).
CosSign(lat0) ==
    LET q == 90 * lat0.d
        p == lat0.n % (4 * q)
    IN  CASE p < q \/ p > 3 * q -> 1
          [] p > q /\ p < 3 * q -> -1
          [] Abs(lat0.n) = q -> 1
          [] Abs(lat0.n) = 3 * q -> -1
          [] Abs(lat0.n) = 5 * q -> 1

\* the sign of Math.sin((Math.PI / 180) * lng0), the sign bit of the zero
\* included: sin(0) is +0, and at a multiple of 180 degrees the double is
\* the rounding residue (180: +, 360: -, 540: +, the opposite for -lng0).
SinSign(lng0) ==
    LET q == 90 * lng0.d
        p == lng0.n % (4 * q)
        sgn == IF lng0.n < 0 THEN -1 ELSE 1
    IN  CASE p > 0 /\ p < 2 * q -> 1
          [] p > 2 * q -> -1
          [] lng0.n = 0 -> 1
          [] Abs(lng0.n) = 2 * q -> sgn
          [] Abs(lng0.n) = 4 * q -> -sgn
          [] Abs(lng0.n) = 6 * q -> sgn

\* lines 227-233: the point through the unit vector. lat = asin(sin(phi))
\* folds the latitude into [-90, 90]; lng = atan2(y, x) is lambda, turned by
\* 180 degrees when cos(phi) < 0, in [-180, 180]: where the direction is the
\* antimeridian, atan2 answers +180 or -180 by the sign of y = cos(phi) *
\* sin(lambda). The trigonometry of an infinity is NaN.
Normalize(lng0, lat0) ==
    IF lng0.k # "fin" \/ lat0.k # "fin"
    THEN [lng |-> NaN, lat |-> NaN]
    ELSE LET q == 90 * lat0.d
             p == lat0.n % (4 * q)
             c == CosSign(lat0)
             ql == 90 * lng0.d
             theta == IF c > 0 THEN lng0.n ELSE lng0.n + 2 * ql
             t == theta % (4 * ql)
         IN  [lng |-> Fin(IF t < 2 * ql THEN t
                          ELSE IF t > 2 * ql THEN t - 4 * ql
                          ELSE IF c * SinSign(lng0) > 0 THEN 2 * ql ELSE -(2 * ql),
                          lng0.d, 0),
              lat |-> Fin(IF p <= q THEN p
                          ELSE IF p <= 3 * q THEN 2 * q - p ELSE p - 4 * q,
                          lat0.d, 0)]

\* the largest k >= 0 with a * 2^k <= b, for 0 < a <= b
RECURSIVE Halvings(_, _)
Halvings(a, b) == IF 2 * a <= b THEN 1 + Halvings(2 * a, b) ELSE 0

\* the least j >= 0 with a <= b * 2^j, for a, b > 0
RECURSIVE Doublings(_, _)
Doublings(a, b) == IF a <= b THEN 0 ELSE 1 + Doublings(a, 2 * b)

\* Math.floor(-Math.log2(a / b)) for integers a, b > 0
FloorNegLog2(a, b) == IF a <= b THEN Halvings(a, b) ELSE -Doublings(a, b)

Max(a, b) == IF a >= b THEN a ELSE b
Min(a, b) == IF a <= b THEN a ELSE b

\* line 240: Math.max(1, Math.floor(-Math.log2(radius / Math.PI))); log2 of
\* a negative number is NaN, and Math.max of NaN is NaN (pi is taken as
\* 355 / 113 where the quotient is no rational)
Zoom(radius) ==
    LET x == Times(radius, 1, 1, -1)
    IN  CASE x.k = "nan" -> NaN
          [] x.k = "inf" -> IF x.n > 0 THEN Fin(1, 1, 0) ELSE NaN
          [] x.n < 0 -> NaN
          [] x.n = 0 -> Infinite(1)
          [] x.u = 0 -> Fin(Max(1, FloorNegLog2(x.n, x.d)), 1, 0)
          [] x.u = -1 -> Fin(Max(1, FloorNegLog2(x.n * 113, x.d * 355)), 1, 0)

\* where the store locates a geometry, in whole degrees
GeoLocation(g) ==
    CASE g.s = <<"g", "1">> -> [lng |-> 0, lat |-> 0]
      [] g.s = <<"g", "2">> -> [lng |-> 0, lat |-> 80]
      [] g.s = <<"g", "3">> -> [lng |-> 0, lat |-> 1]

\* the angle between two points, in degrees, for points on one meridian
\* circle or both on the equator
AngularDistance(a, b) ==
    CASE a.lng = b.lng \/ Abs(a.lat) = 90 \/ Abs(b.lat) = 90 -> Abs(a.lat - b.lat)
      [] Abs(a.lng - b.lng) = 180 ->
           Min(180 - (a.lat + b.lat), 180 + (a.lat + b.lat))
      [] a.lat = 0 /\ b.lat = 0 ->
           Min(Abs(a.lng - b.lng), 360 - Abs(a.lng - b.lng))

\* a length in metres, rounded down (pi taken as 355 / 113)
MetresFloor(x) ==
    CASE x.u = 0 -> x.n \div x.d
      [] x.u = -1 -> ((x.n \div x.d) \div 355) * 113

\* the store's $near: a document matches when its geometry lies within
\* $maxDistance metres of the point (111320 m to the degree)
Near(doc, point, radiusM) ==
    /\ "geometry" \in DOMAIN doc
    /\ doc["geometry"].k = "geo"
    /\ \/ radiusM.k = "inf"
       \/ AngularDistance(GeoLocation(doc["geometry"]),
                          [lng |-> point.lng.n \div point.lng.d,
                           lat |-> point.lat.n \div point.lat.d]) * 111320
             <= MetresFloor(radiusM)

\* mutant of ZoomEligible: the find has no condition on zoom
ZoomEligible_IgnoresZoom(doc, zoom) == TRUE

\* $or: [{zoom: {$exists: false}}, {zoom: {$lte: zoom}}]; $lte matches
\* numbers only
ZoomEligible(doc, zoom) ==
    \/ "zoom" \notin DOMAIN doc
    \/ /\ doc["zoom"].k = "num"
       /\ zoom.k = "fin"
       /\ ParseFloat(Str(doc["zoom"].s)).n * zoom.d <= zoom.n * ParseFloat(Str(doc["zoom"].s)).d

\* why the store fails the find ("" when it does not)
FindError(d, idx, collection, point, radiusM) ==
    IF point.lng.k # "fin" \/ point.lat.k # "fin"
    THEN "invalid point in geo near query"
    ELSE IF ~Positive(radiusM)
    THEN "$maxDistance must be non-negative"
    ELSE IF collection \in DOMAIN d /\ collection \notin idx
    THEN "unable to find index for $geoNear query"
    ELSE ""

\* collection.find(...).toArray(): the matching documents nearest first,
\* documents at one distance in an order of the store's choosing
FindResults(coll, point, radiusM, zoom) ==
    LET ids == {id \in DOMAIN coll :
                   Near(coll[id], point, radiusM) /\ ZoomEligible(coll[id], zoom)}
        n == Cardinality(ids)
        far(id) == AngularDistance(GeoLocation(coll[id]["geometry"]),
                                   [lng |-> point.lng.n \div point.lng.d,
                                    lat |-> point.lat.n \div point.lat.d])
    IN  { [i \in 1..n |-> [doc |-> coll[order[i]], id |-> order[i]]] :
            order \in {o \in [1..n -> ids] :
                          /\ \A i, j \in 1..n : o[i] = o[j] => i = j
                          /\ \A i, j \in 1..n : i < j => far(o[i]) <= far(o[j])} }

\* the geometries for which simplify may hand back nothing
Degenerate(g) == g.s = <<"g", "3">>

\* what .filter(Boolean) removes
NoFeature == [geometry |-> Undef, type |-> ""]

\* simplify({type: "Feature", geometry}, {tolerance, highQuality: false}):
\* a Feature of the simplified geometry and of nothing else
Simplify(geometry, tolerance) ==
    [geometry |-> Geo(geometry.s \o <<"~">>), type |-> "Feature"]

\* docs.map(simplify).filter(Boolean), simplify handing back nothing for the
\* documents at the positions nothing
Features(found, nothing, tolerance) ==
    SelectSeq([i \in 1..Len(found) |->
                  IF i \in nothing
                  THEN NoFeature
                  ELSE Simplify(found[i].doc["geometry"], tolerance)],
              LAMBDA f : f # NoFeature)

\* the handler up to the answer of the store: the error thrown, the values
\* computed, the find issued and the arrays the store may answer with
QueryHandler(d, idx, featureclass, lng, lat, radiusRaw) ==
    LET lng0 == ParseFloat(lng)
        lat0 == ParseFloat(lat)
        radius == IF Falsy(ParseFloat(radiusRaw))
                  THEN Fin(1, 2, 1)
                  ELSE ParseFloat(radiusRaw)
        point == Normalize(lng0, lat0)
        radiusM == Times(radius, 20000000, 1, -1)
        zoom == Zoom(radius)
        collection == S_geo_ \o featureclass
        failure == FindError(d, idx, collection, point, radiusM)
        rejected == [status |-> StatusOf(400), error |-> "Invalid coordinates",
                     target |-> <<>>,
                     query |-> [NoQuery EXCEPT !.lng = lng, !.lat = lat,
                                               !.radiusRaw = radiusRaw,
                                               !.radius = radius],
                     results |-> {<<>>}]
        issued == [rejected.query EXCEPT !.queried = TRUE, !.point = point,
                                         !.radiusM = radiusM, !.zoom = zoom]
    IN  IF IsNaN(lng0) \/ IsNaN(lat0)
        THEN rejected
        ELSE IF failure # ""
        THEN [status |-> StatusOf(0), error |-> failure, target |-> collection,
              query |-> issued, results |-> {<<>>}]
        ELSE [status |-> 200, error |-> "", target |-> collection,
              query |-> [issued EXCEPT !.tolerance = Times(radius, 9, 50, 0)],
              results |-> FindResults(DocsOf(d, collection), point, radiusM, zoom)]

\* mutant of Query: the handler ensures the index of the collection before
\* it queries, as the upload handler does
Query_EnsuresIndex(featureclass, lng, lat, radius) ==
    /\ boot = "listening"
    /\ nreq < MaxRequests
    /\ nreq' = nreq + 1
    /\ LET ensured == EnsureGeospatialIndexForCollection(docs, indexes,
                                                         S_geo_ \o featureclass)
           r == QueryHandler(ensured.docs, ensured.indexes, featureclass, lng, lat, radius)
       IN  /\ \E found \in r.results :
                last' = [Response("query", NoHeader, <<>>, r.status, r.error)
                            EXCEPT !.target = r.target,
                                   !.query = [r.query EXCEPT
                                                 !.found = found,
                                                 !.features = Features(found, {}, r.query.tolerance)]]
           /\ docs' = ensured.docs
           /\ indexes' = ensured.indexes
    /\ UNCHANGED <<env, boot, pending, lastPut, ingested, atBoot, running>>

Query(featureclass, lng, lat, radius) ==
    /\ boot = "listening"
    /\ nreq < MaxRequests
    /\ nreq' = nreq + 1
    /\ LET r == QueryHandler(docs, indexes, featureclass, lng, lat, radius)
       IN  \E found \in r.results :
             \E nothing \in SUBSET {i \in 1..Len(found) :
                                       Degenerate(found[i].doc["geometry"])} :
               last' = [Response("query", NoHeader, <<>>, r.status, r.error)
                           EXCEPT !.target = r.target,
                                  !.query = [r.query EXCEPT
                                                !.found = found,
                                                !.features = Features(found, nothing,
                                                                      r.query.tolerance)]]
    /\ UNCHANGED <<env, boot, pending, docs, indexes, lastPut, ingested, atBoot, running>>

----------------------------------------------------------------------------
(* Inputs                                                                  *)

S_r1 == <<"r", "1">>
S_r2 == <<"r", "2">>
S_a1 == <<"a", "1">>
S_u == <<"u">>
S_p == <<"p">>
S_p_q == <<"p", ":", "q">>
S_0 == <<"0">>

RuleIds == {S_r1, S_r2}

M_id_name == [_id |-> "code", name |-> "label"]
M_id_kind == [_id |-> "code", kind |-> "label"]
M_geometry == [geometry |-> "label", _id |-> "code", name |-> "label"]
M_name == [name |-> "label"]

G1 == Geo(<<"g", "1">>)
G2 == Geo(<<"g", "2">>)
G3 == Geo(<<"g", "3">>)

Feature(properties, geometry) ==
    [properties |-> properties, geometry |-> geometry, type |-> "Feature"]

\* two features of the same _id and different content
F_a1_x == Feature([code |-> Str(S_a1), label |-> Str(<<"x">>)], G1)
F_a1_y == Feature([code |-> Str(S_a1), label |-> Str(<<"y">>)], G2)
\* a feature whose _id is a rule identifier, and that has no label
F_r1 == Feature([code |-> Str(S_r1)], G1)
\* a feature without the _id source property, and one where it is empty
F_noCode == Feature([label |-> Str(<<"x">>)], G1)
F_emptyCode == Feature([code |-> Str(<<>>), label |-> Str(<<"x">>)], G2)
\* an entry that is no Feature
F_point == [properties |-> NoEntries, geometry |-> G1, type |-> "Point"]

\* the feature arrays of at most MaxBatch entries over fs
Batches(fs) == UNION {[1..n -> fs] : n \in 0..MaxBatch}

\* upload bodies: FeatureCollections, and two bodies that are none
UploadBodies(fs) ==
    {[features |-> b, type |-> "FeatureCollection", isArray |-> TRUE] : b \in Batches(fs)}
    \cup {[features |-> <<>>, type |-> "Feature", isArray |-> TRUE],
          [features |-> <<>>, type |-> "FeatureCollection", isArray |-> FALSE]}

\* the header of a client that knows the secrets
GoodHeader == Header(S_Basic, env.login.s \o <<":">> \o env.password.s)

\* a rule record as putRule stores it
Rule(featureclass, mapping) == [mapping |-> mapping, featureclass |-> featureclass]

\* a store of empty collections, and one whose rule store holds rule r1
EmptyColls(names) == [c \in names |-> NoDocs]
StoreWithRule(names, rule) ==
    WithColl(EmptyColls(names), RuleStore, (Str(S_r1) :> rule))

----------------------------------------------------------------------------
(* The service                                                             *)

InitWith(envs, stores) ==
    /\ env \in envs
    /\ boot = "connecting"
    /\ pending = {}
    /\ docs \in stores
    /\ atBoot = docs
    /\ indexes = {}
    /\ last = NoRequest
    /\ lastPut = [id \in RuleIds |->
                     LET known == Str(id) \in DOMAIN DocsOf(docs, RuleStore)
                         rule == DocsOf(docs, RuleStore)[Str(id)]
                     IN  [set |-> known,
                          mapping |-> IF known THEN rule.mapping ELSE Undef,
                          featureclass |-> IF known THEN rule.featureclass ELSE Undef,
                          replaced |-> FALSE]]
    /\ ingested = {}
    /\ nreq = 0
    /\ running = [k \in Slots |-> Idle]

Startup ==
    \/ ConnectOk
    \/ ConnectFail
    \/ ListCollections
    \/ ListCollectionsFail
    \/ \E c \in pending : EnsureAtBootOk(c)
    \/ \E c \in pending : EnsureAtBootFail(c)
    \/ Listen

Secrets == [login |-> Str(S_u), password |-> Str(S_p)]

(* Ingestion: a store that holds rule r1 and a document ingested under   *)
(* it by an earlier run; batches of every kind.                            *)

S_road == <<"r", "o", "a", "d">>

\* the document an earlier ingest of F_a1_x under r1 left in geo_poi
Doc_a1 == [geometry |-> G1, name |-> Str(<<"x">>)]

Init ==
    InitWith({Secrets},
             {WithColl(StoreWithRule({S_logs}, Rule(Str(S_poi), Obj(M_id_name))),
                       S_geo_ \o S_poi, (Str(S_a1) :> Doc_a1))})

Next ==
    \/ Startup
    \/ \E fc \in {Str(S_poi), Str(S_road)}, m \in {Obj(M_id_name), Obj(M_id_kind)} :
          PutRule(GoodHeader, S_r1, fc, m)
    \/ \E id \in RuleIds : Upload(GoodHeader, id, [features |-> <<>>, type |-> "Feature", isArray |-> TRUE])
    \/ \E body \in UploadBodies({F_a1_x, F_a1_y, F_noCode, F_point}) :
          Upload(GoodHeader, S_r1, body)
    \/ \E fc \in {S_poi, S_road}, lng \in {Str(S_0), Undef} : Query(fc, lng, Str(S_0), Undef)

Spec == Init /\ [][Next]_vars

(* Rules: every kind of putRule body, and ingests under the rules put,    *)
(* one of them of a feature whose _id is a rule identifier.                *)

\* featureclass of a putRule body: absent, well-formed, malformed, an array
FeatureclassValues ==
    {Undef, Str(S_poi), Str(S_upload_rule), Str(S_a_b), Arr1(S_poi)}

\* mapping of a putRule body: absent, a string, without _id, well-formed
MappingValues == {Undef, Str(S_p), Obj(M_name), Obj(M_id_name), Obj(M_id_kind)}

InitRules ==
    InitWith({Secrets}, {StoreWithRule({S_logs}, Rule(Str(S_poi), Obj(M_id_name)))})

NextRules ==
    \/ Startup
    \/ \E id \in RuleIds, fc \in FeatureclassValues, m \in MappingValues :
          PutRule(GoodHeader, id, fc, m)
    \/ \E body \in UploadBodies({F_a1_x, F_r1}) : Upload(GoodHeader, S_r1, body)
    \/ Query(S_poi, Str(S_0), Str(S_0), Undef)

SpecRules == InitRules /\ [][NextRules]_vars

(* Credentials: every configuration of the two secrets, every kind of      *)
(* Authorization header.                                                   *)

Environments ==
    {[login |-> Str(S_u), password |-> pw] :
        pw \in {Str(S_p), Str(S_p_q), Str(<<>>), Undef}}
    \cup {[login |-> Undef, password |-> Str(S_p)]}

Headers ==
    {NoHeader, Header(S_Bearer, <<"u", ":", "p">>)}
    \cup {Header(S_Basic, cred) :
            cred \in { <<"u", ":", "p">>, <<"u", ":", "p", ":", "q">>, <<"u">>,
                       <<"u", ":">>, <<"x", ":", "p">>, <<"u", ":", "x">> }}

InitAuth ==
    InitWith(Environments, {StoreWithRule({S_logs}, Rule(Str(S_poi), Obj(M_id_name)))})

NextAuth ==
    \/ Startup
    \/ \E hdr \in Headers : PutRule(hdr, S_r1, Str(S_poi), Obj(M_id_kind))
    \/ \E hdr \in Headers, body \in UploadBodies({F_a1_x}) : Upload(hdr, S_r1, body)
    \/ Query(S_poi, Str(S_0), Str(S_0), Undef)

SpecAuth == InitAuth /\ [][NextAuth]_vars

(* Start-up: every set of collections the store may hold at boot.          *)

InitBoot ==
    InitWith({Secrets},
             {StoreWithRule(names, Rule(Str(S_poi), Obj(M_id_name))) :
                 names \in SUBSET {S_geo_ \o S_poi, S_geo_ \o S_road, S_logs}})

NextBoot ==
    \/ Startup
    \/ PutRule(GoodHeader, S_r1, Str(S_road), Obj(M_id_name))
    \/ \E body \in UploadBodies({F_a1_x}) : Upload(GoodHeader, S_r1, body)
    \/ \E fc \in {S_poi, S_road} : Query(fc, Str(S_0), Str(S_0), Undef)

SpecBoot == InitBoot /\ [][NextBoot]_vars

(* Concurrency: two uploads in flight, under two rules of one featureclass *)

InitConcurrent ==
    InitWith({Secrets},
             {WithColl(EmptyColls({S_logs}), RuleStore,
                       (Str(S_r1) :> Rule(Str(S_poi), Obj(M_id_name)))
                       @@ (Str(S_r2) :> Rule(Str(S_poi), Obj(M_id_kind))))})

NextConcurrent ==
    \/ Startup
    \/ \E k \in Slots, id \in RuleIds, body \in UploadBodies({F_a1_x, F_a1_y}) :
          UploadStart(k, GoodHeader, id, body)
    \/ \E k \in Slots, i \in 1..MaxBatch : UploadWrite(k, i)
    \/ \E k \in Slots : UploadFinish(k)

SpecConcurrent == InitConcurrent /\ [][NextConcurrent]_vars

(* Mapping: rules with and without a target field named geometry,        *)
(* features with and without the source properties.                        *)

InitMapping ==
    InitWith({Secrets},
             {WithColl(WithColl(EmptyColls({S_logs}), RuleStore,
                                (Str(S_r1) :> Rule(Str(S_poi), Obj(M_id_name)))
                                @@ (Str(S_r2) :> Rule(Str(S_poi), Obj(M_geometry)))),
                       S_geo_ \o S_poi, (Str(S_a1) :> Doc_a1))})

NextMapping ==
    \/ Startup
    \/ \E m \in {Obj(M_geometry), Obj(M_id_kind)} : PutRule(GoodHeader, S_r1, Str(S_poi), m)
    \/ \E id \in RuleIds, body \in UploadBodies({F_a1_x, F_r1, F_noCode}) :
          Upload(GoodHeader, id, body)
    \/ Query(S_poi, Str(S_0), Str(S_0), Undef)

SpecMapping == InitMapping /\ [][NextMapping]_vars

(* Queries: coordinates in and out of range, finite or not, radii of      *)
(* every kind, over documents with and without zoom.                       *)

S_b1 == <<"b", "1">>
S_c1 == <<"c", "1">>
S_d1 == <<"d", "1">>
S_abc == <<"a", "b", "c">>

\* geo_poi: a1 and b1 at the origin, b1 from tier 5 on; c1 one degree north;
\* d1 eighty degrees north
Points ==
    (Str(S_a1) :> [geometry |-> G1])
    @@ (Str(S_b1) :> [zoom |-> Num(<<"5">>), geometry |-> G1])
    @@ (Str(S_c1) :> [zoom |-> Num(<<"1">>), geometry |-> G3])
    @@ (Str(S_d1) :> [zoom |-> Num(<<"1">>), geometry |-> G2])

M_zoom == [zoom |-> "z", _id |-> "code"]
F_b1_z == Feature([code |-> Str(S_b1), z |-> Num(<<"2">>)], G1)

\* raw (lng, lat) pairs
Coordinates ==
    { <<Str(<<"0">>), Str(<<"0">>)>>, <<Str(<<"0">>), Str(<<"1", "0", "0">>)>>,
      <<Str(<<"0">>), Str(<<"9", "0">>)>>, <<Str(<<"0">>), Str(<<"-", "9", "0">>)>>,
      <<Str(<<"1", "8", "0">>), Str(<<"0">>)>>, <<Str(<<"-", "1", "8", "0">>), Str(<<"0">>)>>,
      <<Str(<<"3", "6", "0">>), Str(<<"0">>)>>, <<Str(<<"1", "8", "0">>), Str(<<"1", "0", "0">>)>>,
      <<Str(S_Infinity), Str(<<"0">>)>>, <<Str(<<"0">>), Str(<<"-">> \o S_Infinity)>>,
      <<Str(S_abc), Str(<<"0">>)>>, <<Str(<<"0">>), Undef>> }

\* raw radii
Radii ==
    { Undef, Str(S_abc), Str(<<"0">>), Str(<<"-", "1">>), Str(<<"0", ".", "1">>),
      Str(<<"0", ".", "0", "5">>), Str(S_2PI), Str(S_PI), Str(S_PI_2), Str(S_PI_4),
      Str(S_PI_8) }

InitQuery ==
    InitWith({Secrets},
             {WithColl(StoreWithRule({S_logs}, Rule(Str(S_poi), Obj(M_zoom))),
                       S_geo_ \o S_poi, Points)})

NextQuery ==
    \/ Startup
    \/ \E c \in Coordinates : Query(S_poi, c[1], c[2], Undef)
    \/ \E radius \in Radii : Query(S_poi, Str(<<"0">>), Str(<<"0">>), radius)
    \/ \E fc \in {S_road, S_upload_rule} : Query(fc, Str(<<"0">>), Str(<<"0">>), Undef)
    \/ \E body \in UploadBodies({F_b1_z}) : Upload(GoodHeader, S_r1, body)

SpecQuery == InitQuery /\ [][NextQuery]_vars

----------------------------------------------------------------------------
(* Properties                                                              *)

\* the step serves a request
Served == nreq' = nreq + 1

\* the rule stored under id (no fields when there is none)
StoredRule(d, id) == Get(DocsOf(d, RuleStore), Str(id))

\* a feature that cannot be mapped under mapping: it is no Feature, or the
\* source property the _id entry names is absent or empty
FailsMapping(mapping, feature) ==
    \/ feature.type # "Feature"
    \/ /\ HasKey(mapping, "_id")
       /\ ~Truthy(Get(feature.properties, mapping.o["_id"]))

\* an upload, served by the handler, of a batch with a feature that cannot
\* be mapped under the rule found
FailedBatch ==
    /\ Served
    /\ last'.op = "upload"
    /\ Str(last'.ruleId) \in DOMAIN DocsOf(docs, RuleStore)
    /\ \E i \in 1..Len(last'.features) :
          FailsMapping(Get(StoredRule(docs, last'.ruleId), "mapping"),
                       last'.features[i])

\* C1: an upload in which some feature fails mapping, at whatever position
\* of the batch, writes no document: every collection holds after the
\* request the documents it held before it.
C1_FailedBatchWritesNoDocument ==
    [][FailedBatch =>
          \A c \in DOMAIN docs \cup DOMAIN docs' : DocsOf(docs', c) = DocsOf(docs, c)]_vars

\* C1 witness: a batch whose second feature fails after a first that maps,
\* uploaded to a collection that holds documents
C1_Witness ==
    /\ last.op = "upload"
    /\ last.pos = 2
    /\ ~FailsMapping(last.mapping, last.features[1])
    /\ DocsOf(docs, last.target) # NoDocs

\* C2 (as claimed): ingesting the same FeatureCollection again under the
\* same unchanged rule inserts nothing and leaves the documents of the
\* target collection as the first ingest left them.
C2_ReingestIsIdempotent ==
    [][(/\ Served
        /\ last.op = "upload" /\ last.status = 200
        /\ last'.op = "upload" /\ last'.status = 200
        /\ last'.ruleId = last.ruleId
        /\ last'.features = last.features
        /\ last'.mapping = last.mapping
        /\ last'.target = last.target)
       => /\ last'.inserted = 0
          /\ DocsOf(docs', last'.target) = DocsOf(docs, last.target)
          /\ Cardinality(DOMAIN DocsOf(docs', last'.target))
                = Cardinality(DOMAIN DocsOf(docs, last.target))]_vars

\* the document the mapping engine builds for a feature, as the store holds it
MappedDocument(mapping, feature) == ApplySet(NoEntries, MapFeature(mapping, feature).set)

\* C5 (as claimed): after a successful ingest the document stored under an
\* ingested _id is exactly the mapped document of a feature of the batch
\* with that _id: nothing of an earlier version of the document remains.
C5_IngestReplacesDocument ==
    (last.op = "upload" /\ last.status = 200) =>
        \A i \in 1..Len(last.features) :
            LET id == MapFeature(last.mapping, last.features[i]).id
            IN  /\ id \in DOMAIN DocsOf(docs, last.target)
                /\ \E j \in 1..Len(last.features) :
                      /\ MapFeature(last.mapping, last.features[j]).id = id
                      /\ DocsOf(docs, last.target)[id]
                            = MappedDocument(last.mapping, last.features[j])

\* C9 (as claimed): the collection an ingest has written into, and the
\* collection a proximity query has been executed against, carries the
\* spatial index.
C9_IndexBeforeWriteAndQuery ==
    /\ (last.op = "upload" /\ last.status = 200) => last.target \in indexes
    /\ (last.op = "query" /\ last.target # <<>>) => last.target \in indexes

\* the errors of an upload rejected for malformed input
UploadValidationErrors ==
    { "Body must be a valid GeoJSON FeatureCollection",
      "All items must be GeoJSON Features",
      "Feature missing _id value from mapping",
      "No valid features to insert" }

\* C10 (as claimed): an upload rejected for malformed input leaves the whole
\* store (documents, collections, indexes) as it was.
C10_RejectedUploadLeavesStore ==
    [][(Served /\ last'.op = "upload" /\ last'.error \in UploadValidationErrors)
       => (docs' = docs /\ indexes' = indexes)]_vars

\* a rule record putRule would accept: its featureclass passes the
\* handler's test and its mapping has an _id entry
ValidRule(rule) ==
    /\ Truthy(Get(rule, "featureclass"))
    /\ MatchesWord(JsString(Get(rule, "featureclass")))
    /\ HasKey(Get(rule, "mapping"), "_id")

\* C3 (as claimed): a rejected putRule leaves the rule store as it was, and
\* every stored rule has a valid featureclass and a mapping with an _id entry.
C3_StoredRulesAreValid ==
    [][/\ (Served /\ last'.op = "putRule" /\ last'.status # 200)
             => DocsOf(docs', RuleStore) = DocsOf(docs, RuleStore)
       /\ \A id \in DOMAIN DocsOf(docs', RuleStore) :
             ValidRule(DocsOf(docs', RuleStore)[id])]_vars

\* C4: as long as putRule alone has written the rule store, it holds exactly
\* one record per identifier put, that record is exactly the featureclass
\* and the mapping of the last accepted putRule of the identifier (nothing
\* of an earlier version remains), and an ingest under the identifier uses
\* that featureclass and that mapping.
C4_PutRuleReplacesRule ==
    RuleStore \notin ingested =>
        /\ DOMAIN DocsOf(docs, RuleStore) = {Str(id) : id \in {i \in RuleIds : lastPut[i].set}}
        /\ \A id \in RuleIds :
              lastPut[id].set =>
                  StoredRule(docs, id) = Rule(lastPut[id].featureclass, lastPut[id].mapping)
        /\ (last.op = "upload" /\ last.target # <<>>) =>
              /\ last.mapping = lastPut[last.ruleId].mapping
              /\ last.target = S_geo_ \o JsString(lastPut[last.ruleId].featureclass)

\* C4 witness: a successful ingest under a rule that putRule has replaced
C4_Witness ==
    /\ last.op = "upload"
    /\ last.status = 200
    /\ lastPut[last.ruleId].replaced
    /\ RuleStore \notin ingested

\* the two secrets are not both present
SecretsMissing == ~Truthy(env.login) \/ ~Truthy(env.password)

\* C6: when the two secrets are not both present, a request to a write
\* endpoint finds no route and the store holds what it held at boot, while
\* the read endpoint is served.
C6_NoWriteEndpointsWithoutSecrets ==
    SecretsMissing =>
        /\ docs = atBoot
        /\ ingested = {}
        /\ last.op \in {"putRule", "upload"} => last.status = 404
        /\ last.op = "query" => last.status = 200

\* C6 witness: no password configured, a rule definition sent with the
\* login is answered 404
C6_Witness ==
    /\ Truthy(env.login)
    /\ ~Truthy(env.password)
    /\ last.op = "putRule"
    /\ last.hdr.present
    /\ last.status = 404

\* a basic-style credential whose user (the text before the first colon)
\* and password (the text after it) are the configured ones
Authentic(hdr) ==
    /\ hdr.present
    /\ hdr.scheme = S_Basic
    /\ \E i \in 1..Len(hdr.cred) :
          /\ hdr.cred[i] = ":"
          /\ \A j \in 1..(i - 1) : hdr.cred[j] # ":"
          /\ Str(SubSeq(hdr.cred, 1, i - 1)) = env.login
          /\ Str(SubSeq(hdr.cred, i + 1, Len(hdr.cred))) = env.password

\* C7 (as claimed): with the check active, a request to a write endpoint
\* reaches its handler exactly when its credential is the configured one; a
\* missing or non-basic header is answered 401, any other mismatch 403, and
\* a rejected request leaves the store as it was.
C7_HandlerIffCredentialsMatch ==
    [][(Served /\ AuthEnabled /\ last'.op \in {"putRule", "upload"}) =>
          /\ (last'.status \notin {401, 403}) <=> Authentic(last'.hdr)
          /\ (~last'.hdr.present \/ last'.hdr.scheme # S_Basic) => last'.status = 401
          /\ (last'.hdr.present /\ last'.hdr.scheme = S_Basic /\ ~Authentic(last'.hdr))
                => last'.status = 403
          /\ last'.status \in {401, 403} => (docs' = docs /\ indexes' = indexes)]_vars

\* the geo_* collections the store held at boot
GeoAtBoot == {c \in DOMAIN atBoot : StartsWith(c, S_geo_)}

\* C8: the service listens, and serves a request, only once every createIndex
\* of start-up is done and every geo_* collection held at boot carries the
\* index; once the connection or an index verification has failed it never
\* listens and serves no request.
C8_ListensOnlyAfterIndexing ==
    /\ []((boot = "listening" \/ nreq > 0) =>
             (pending = {} /\ GeoAtBoot \subseteq indexes))
    /\ [](boot = "fatal" => nreq = 0)
    /\ [][boot = "fatal" => boot' = "fatal"]_vars

\* C8 witness: a request served after start-up indexed three collections
C8_Witness ==
    /\ boot = "listening"
    /\ nreq > 0
    /\ Cardinality(GeoAtBoot) = 3
    /\ GeoAtBoot \subseteq indexes

\* the messages of the errors raised for malformed input
ValidationMessages ==
    UploadValidationErrors
    \cup { "Invalid coordinates", "featureclass is required",
           "featureclass must be alphanumerical", "mapping must be an object",
           "mapping must contain _id" }

\* C11 (as claimed): a request rejected for malformed input is answered 400
\* with the message of the error, an upload naming an unknown rule is
\* answered 404, and 500 is answered for nothing but a failure of the store.
C11_MalformedInputAnswers400 ==
    /\ last.error \in ValidationMessages => last.status = 400
    /\ last.error = "Upload rule not found" => last.status = 404
    /\ last.status = 500 => last.error \notin ValidationMessages

\* the _ids upload k writes, and the complete documents it writes under id
WrittenIds(k) == {running[k].ops[j].id : j \in 1..Len(running[k].ops)}
WrittenBy(k, id) ==
    {MappedDocument(running[k].mapping, running[k].features[j]) :
        j \in {i \in 1..Len(running[k].ops) : running[k].ops[i].id = id}}

\* C12 (as claimed): once two concurrent uploads into one collection have
\* both completed, the document stored under an _id both have written is
\* the complete mapped document one of the two wrote, whatever the
\* interleaving of their upserts was, and never a mixture of the two.
C12_ConcurrentIngestsRaceByDocument ==
    (/\ \A k \in Slots : running[k].state = "done"
     /\ running[1].target = running[2].target)
    => \A id \in WrittenIds(1) \cap WrittenIds(2) :
          DocsOf(docs, running[1].target)[id] \in WrittenBy(1, id) \cup WrittenBy(2, id)

Finite(x) == x.k = "fin"

\* C14 (as claimed): a query whose longitude or latitude does not parse to
\* a finite number is answered 400 and issues no find, and the point of a
\* find that is issued has two finite coordinates.
C14_NonFiniteCoordinatesRejected ==
    last.op = "query" =>
        /\ (~Finite(ParseFloat(last.query.lng)) \/ ~Finite(ParseFloat(last.query.lat)))
              => (last.status = 400 /\ ~last.query.queried)
        /\ last.query.queried
              => (Finite(last.query.point.lng) /\ Finite(last.query.point.lat))

\* the query of the step, or the last one, was given a radius pi / 2^k
RadiusIsPiOver(q, k) == \E e \in {1, 2, 4, 8} : e = k /\ q.radius = Fin(1, e, 1)

\* C15 (as claimed): the zoom tier of radius pi is 1 and that of pi / 4 is
\* 3, and of two radii pi / 2^k the larger never has the larger tier.
C15_ZoomEstimator ==
    [][(last'.op = "query" /\ last'.query.queried) =>
          /\ RadiusIsPiOver(last'.query, 1) => last'.query.zoom = Fin(1, 1, 0)
          /\ RadiusIsPiOver(last'.query, 4) => last'.query.zoom = Fin(3, 1, 0)
          /\ (/\ last.op = "query" /\ last.query.queried
              /\ \E j, k \in {1, 2, 4, 8} :
                    /\ RadiusIsPiOver(last.query, j)
                    /\ RadiusIsPiOver(last'.query, k)
                    /\ k <= j)
             => /\ Finite(last.query.zoom) /\ Finite(last'.query.zoom)
                /\ last'.query.zoom.n <= last.query.zoom.n]_vars

\* C16 (as claimed): a query with acceptable coordinates never fails for its
\* radius: a raw radius that is absent, not a number or not positive is
\* replaced by pi / 2, so the radius used is positive, the tier is an
\* integer from 1 up, the search distance is (20000000 / pi) * radius and
\* not negative, and the tolerance is 0.18 * radius (0.018 for 0.1).
C16_RadiusDefaultsToHalfPi ==
    (last.op = "query" /\ last.query.queried) =>
        LET q == last.query
            raw == ParseFloat(q.radiusRaw)
        IN  /\ ~(Finite(raw) /\ raw.n > 0) => q.radius = Fin(1, 2, 1)
            /\ Positive(q.radius)
            /\ Finite(q.zoom) /\ q.zoom.d = 1 /\ q.zoom.u = 0 /\ q.zoom.n >= 1
            /\ q.radiusM = Times(q.radius, 20000000, 1, -1)
            /\ Positive(q.radiusM)
            /\ last.error # "$maxDistance must be non-negative"
            /\ last.status = 200 =>
                  /\ q.tolerance = Times(q.radius, 18, 100, 0)
                  /\ q.radius = Fin(1, 10, 0) => q.tolerance = Fin(18, 1000, 0)

\* the longitude n / d degrees turned into (-180, 180]
Wrapped(n, d) ==
    LET t == n % (360 * d)
    IN  Fin(IF t <= 180 * d THEN t ELSE t - 360 * d, d, 0)

\* C17 (as claimed): for finite raw coordinates the point of the find has
\* its latitude in [-90, 90] and its longitude in (-180, 180]; coordinates
\* already in these ranges are sent as they are; a latitude between 90 and
\* 180 degrees is reflected across the pole and the longitude turned by 180
\* degrees (raw lng 0, lat 100: lat 80, lng 180).
C17_NormalizedPointInRange ==
    (/\ last.op = "query"
     /\ Finite(ParseFloat(last.query.lng))
     /\ Finite(ParseFloat(last.query.lat)))
    => LET lng0 == ParseFloat(last.query.lng)
           lat0 == ParseFloat(last.query.lat)
           pt == last.query.point
       IN  /\ last.query.queried
           /\ Finite(pt.lng) /\ Finite(pt.lat)
           /\ -90 * pt.lat.d <= pt.lat.n /\ pt.lat.n <= 90 * pt.lat.d
           /\ -180 * pt.lng.d < pt.lng.n /\ pt.lng.n <= 180 * pt.lng.d
           /\ (/\ -90 * lat0.d <= lat0.n /\ lat0.n <= 90 * lat0.d
               /\ -180 * lng0.d < lng0.n /\ lng0.n <= 180 * lng0.d)
              => pt = [lng |-> lng0, lat |-> lat0]
           /\ (90 * lat0.d < lat0.n /\ lat0.n <= 180 * lat0.d)
              => pt = [lng |-> Wrapped(lng0.n + 180 * lng0.d, lng0.d),
                       lat |-> Fin(180 * lat0.d - lat0.n, lat0.d, 0)]

\* the point and the search distance of the last query put a document in reach
InReach(doc) == Near(doc, last.query.point, last.query.radiusM)

\* the zoom of a document is a number above the tier of the last query
AboveTier(doc) ==
    /\ "zoom" \in DOMAIN doc
    /\ doc["zoom"].k = "num"
    /\ ParseFloat(Str(doc["zoom"].s)).n
          > last.query.zoom.n * ParseFloat(Str(doc["zoom"].s)).d

\* C18: the answer to a successful query on fc is built from documents of
\* geo_<fc> only, each in reach of the normalized point and with no zoom or
\* a zoom not above the estimated tier; a document in reach without zoom is
\* always among them and one with a zoom above the tier never; every feature
\* returned has a type and a simplified geometry and nothing else; the
\* features are the simplifications that are not empty, in the order in
\* which the store returned the documents.
C18_ResponseFromEligibleDocuments ==
    (last.op = "query" /\ last.status = 200) =>
        LET q == last.query
            coll == DocsOf(docs, last.target)
            n == Len(q.found)
        IN  /\ \A i \in 1..n :
                  /\ q.found[i].id \in DOMAIN coll
                  /\ coll[q.found[i].id] = q.found[i].doc
                  /\ InReach(q.found[i].doc)
                  /\ ~AboveTier(q.found[i].doc)
                  /\ \A j \in 1..n : q.found[j].id = q.found[i].id => j = i
            /\ \A id \in DOMAIN coll :
                  (InReach(coll[id]) /\ "zoom" \notin DOMAIN coll[id])
                     => \E i \in 1..n : q.found[i].id = id
            /\ \A i \in 1..Len(q.features) :
                  /\ DOMAIN q.features[i] = {"type", "geometry"}
                  /\ q.features[i].type = "Feature"
            /\ \E kept \in SUBSET (1..n) :
                  /\ \A i \in (1..n) \ kept : Degenerate(q.found[i].doc["geometry"])
                  /\ q.features =
                        SelectSeq([i \in 1..n |->
                                      IF i \in kept
                                      THEN [geometry |-> Geo(q.found[i].doc["geometry"].s
                                                             \o <<"~">>),
                                            type |-> "Feature"]
                                      ELSE NoFeature],
                                  LAMBDA f : f # NoFeature)

\* C18 witness: a successful query that leaves out a document in reach for
\* its zoom, and answers fewer features than the store returned documents
C18_Witness ==
    /\ last.op = "query"
    /\ last.status = 200
    /\ \E id \in DOMAIN DocsOf(docs, last.target) :
          LET doc == DocsOf(docs, last.target)[id]
          IN  InReach(doc) /\ AboveTier(doc)
    /\ Len(last.query.found) >= 2
    /\ Len(last.query.features) < Len(last.query.found)

\* C20: a query, answered or failed, leaves the store as it was: the rules,
\* the feature documents, the collections and their indexes.
C20_QueryIsReadOnly ==
    [][(Served /\ last'.op = "query") => (docs' = docs /\ indexes' = indexes)]_vars

\* C20 witness: after an ingest, a query has been issued against a
\* collection the store does not hold, and the store still does not hold it
C20_Witness ==
    /\ last.op = "query"
    /\ last.query.queried
    /\ last.target \notin DOMAIN docs
    /\ ingested # {}

\* C19 (as claimed): the collection geo_<featureclass> of a rule putRule has
\* accepted is never the rule store; whatever has been put and ingested,
\* the rule store holds one record per identifier put and nothing else, each
\* exactly the last accepted putRule of its identifier; and a query answers
\* with no record of the rule store.
C19_RuleStoreIsolated ==
    /\ \A id \in RuleIds :
          lastPut[id].set =>
              /\ S_geo_ \o JsString(lastPut[id].featureclass) # RuleStore
              /\ StoredRule(docs, id) = Rule(lastPut[id].featureclass, lastPut[id].mapping)
    /\ DOMAIN DocsOf(docs, RuleStore) = {Str(id) : id \in {i \in RuleIds : lastPut[i].set}}
    /\ (last.op = "upload" /\ last.status = 200) => last.target # RuleStore
    /\ (last.op = "query" /\ last.target = RuleStore) => last.query.found = <<>>

====
